---- MODULE Spec2Model ----
(***************************************************************************)
(* Drawing Comparator: the comparison orchestrator                         *)
(* (DrawingComparator.compare_with_method), the three-tier semantic        *)
(* cascade (SemanticComparator.compare_with_gpt and                        *)
(* _fallback_simple_comparison) and the lexical engine they rest on        *)
(* (difflib.SequenceMatcher.ratio and difflib.unified_diff).               *)
(*                                                                         *)
(* Numbers.  Python floats are modelled in fixed point, in thousandths:    *)
(* the integer n stands for n/1000, so 0.8 is 800, a percentage of 50 is   *)
(* 50000 and 50/100.0 is 500.                                              *)
(*                                                                         *)
(* Strings.  A text is a sequence of one-character strings, so that it can *)
(* be indexed, sliced and split into lines; a line of a diff and a         *)
(* difference statement are TLA+ strings.                                  *)
(***************************************************************************)
EXTENDS Integers, Sequences, FiniteSets, TLC

(***************************************************************************)
(* Bounds of the model.                                                    *)
(***************************************************************************)
MaxTextLen == 2

(* The characters texts are made of; "\n" is the line break. *)
Alphabet == {"a", "\n"}

RECURSIVE SeqsUpTo(_, _)
SeqsUpTo(S, n) ==
  IF n = 0 THEN {<<>>}
  ELSE LET shorter == SeqsUpTo(S, n - 1)
       IN  shorter \cup {Append(s, c) : s \in shorter, c \in S}

(* The extracted texts a request can work on. *)
Texts == SeqsUpTo(Alphabet, MaxTextLen)

Min(x, y) == IF x <= y THEN x ELSE y
Max(x, y) == IF x >= y THEN x ELSE y

(***************************************************************************)
(* Lexical engine, part 1: difflib.SequenceMatcher(None, a, b).ratio().    *)
(* Positions are 0-based as in Python: element i of a is a[i + 1].         *)
(* No element is junk: isjunk is None, and the autojunk heuristic only     *)
(* applies to sequences of 200 elements or more.                           *)
(***************************************************************************)

(* Length of the common run of a and b starting at (i, j) inside the       *)
(* windows a[..ahi) and b[..bhi).                                          *)
RECURSIVE MatchLen(_, _, _, _, _, _)
MatchLen(a, b, i, j, ahi, bhi) ==
  IF i < ahi /\ j < bhi /\ a[i + 1] = b[j + 1]
  THEN 1 + MatchLen(a, b, i + 1, j + 1, ahi, bhi)
  ELSE 0

(* find_longest_match: the longest block a[i:i+k] = b[j:j+k] inside the    *)
(* windows; of all longest blocks the one starting earliest in a, and of   *)
(* those the one starting earliest in b; <<alo, blo, 0>> when none.        *)
FindLongestMatch(a, b, alo, ahi, blo, bhi) ==
  LET starts == (alo .. (ahi - 1)) \X (blo .. (bhi - 1))
      len(p) == MatchLen(a, b, p[1], p[2], ahi, bhi)
      best   == IF starts = {} THEN 0
                ELSE CHOOSE k \in {len(p) : p \in starts} :
                       \A p \in starts : len(p) <= k
  IN  IF best = 0 THEN <<alo, blo, 0>>
      ELSE LET longest == {p \in starts : len(p) = best}
               i == CHOOSE x \in {p[1] : p \in longest} :
                      \A p \in longest : x <= p[1]
               j == CHOOSE y \in {p[2] : p \in {q \in longest : q[1] = i}} :
                      \A p \in {q \in longest : q[1] = i} : y <= p[2]
           IN  <<i, j, best>>

(* get_matching_blocks without the final sentinel: the longest match of    *)
(* the window, then recursively the blocks to its left and to its right.   *)
RECURSIVE MatchingBlocks(_, _, _, _, _, _)
MatchingBlocks(a, b, alo, ahi, blo, bhi) ==
  LET m == FindLongestMatch(a, b, alo, ahi, blo, bhi)
      i == m[1]
      j == m[2]
      k == m[3]
  IN  IF k = 0 THEN <<>>
      ELSE (IF alo < i /\ blo < j
            THEN MatchingBlocks(a, b, alo, i, blo, j) ELSE <<>>)
           \o <<m>> \o
           (IF i + k < ahi /\ j + k < bhi
            THEN MatchingBlocks(a, b, i + k, ahi, j + k, bhi) ELSE <<>>)

RECURSIVE SumSizes(_)
SumSizes(blocks) ==
  IF blocks = <<>> THEN 0 ELSE Head(blocks)[3] + SumSizes(Tail(blocks))

(* Ratio as it would be if two empty texts had nothing in common. *)
Ratio_EmptyIsZero(a, b) ==
  LET matches == SumSizes(MatchingBlocks(a, b, 0, Len(a), 0, Len(b)))
      length  == Len(a) + Len(b)
  IN  IF length > 0 THEN (2000 * matches) \div length ELSE 0

(* ratio(): 2.0 * matches / (len(a) + len(b)), and 1.0 when both are empty *)
(* (_calculate_ratio).                                                     *)
Ratio(a, b) ==
  LET matches == SumSizes(MatchingBlocks(a, b, 0, Len(a), 0, Len(b)))
      length  == Len(a) + Len(b)
  IN  IF length > 0 THEN (2000 * matches) \div length ELSE 1000

(***************************************************************************)
(* Lexical engine, part 2: list(difflib.unified_diff(text1.splitlines(),   *)
(* text2.splitlines(), fromfile='File 1', tofile='File 2', lineterm='')).  *)
(***************************************************************************)

(* The number of context lines of unified_diff (its default n). *)
ContextLines == 3

RECURSIVE JoinChars(_)
JoinChars(cs) ==
  IF cs = <<>> THEN "" ELSE Head(cs) \o JoinChars(Tail(cs))

(* str.splitlines(): a line ends at each line break; a last line without   *)
(* a line break counts when it is not empty.                               *)
RECURSIVE SplitFrom(_, _)
SplitFrom(text, cur) ==
  IF text = <<>> THEN (IF cur = "" THEN <<>> ELSE <<cur>>)
  ELSE IF Head(text) = "\n" THEN <<cur>> \o SplitFrom(Tail(text), "")
  ELSE SplitFrom(Tail(text), cur \o Head(text))

SplitLines(text) == SplitFrom(text, "")

Opcode(tag, i1, i2, j1, j2) ==
  [tag |-> tag, i1 |-> i1, i2 |-> i2, j1 |-> j1, j2 |-> j2]

(* get_opcodes: walk the matching blocks (with the closing sentinel) and   *)
(* describe what lies between one block and the next.                      *)
RECURSIVE OpcodesFrom(_, _, _)
OpcodesFrom(blocks, i, j) ==
  IF blocks = <<>> THEN <<>>
  ELSE LET ai   == Head(blocks)[1]
           bj   == Head(blocks)[2]
           size == Head(blocks)[3]
           tag  == IF i < ai /\ j < bj THEN "replace"
                   ELSE IF i < ai THEN "delete"
                   ELSE IF j < bj THEN "insert"
                   ELSE ""
       IN  (IF tag # "" THEN <<Opcode(tag, i, ai, j, bj)>> ELSE <<>>)
           \o (IF size > 0
               THEN <<Opcode("equal", ai, ai + size, bj, bj + size)>>
               ELSE <<>>)
           \o OpcodesFrom(Tail(blocks), ai + size, bj + size)

GetOpcodes(a, b) ==
  OpcodesFrom(MatchingBlocks(a, b, 0, Len(a), 0, Len(b))
                \o << <<Len(a), Len(b), 0>> >>, 0, 0)

(* The loop of get_grouped_opcodes: an equal run longer than 2n closes the *)
(* group; a group holding a single equal run is not reported.              *)
RECURSIVE GroupLoop(_, _)
GroupLoop(codes, group) ==
  IF codes = <<>>
  THEN (IF group # <<>> /\ ~(Len(group) = 1 /\ group[1].tag = "equal")
        THEN <<group>> ELSE <<>>)
  ELSE LET c == Head(codes)
           n == ContextLines
       IN  IF c.tag = "equal" /\ c.i2 - c.i1 > n + n
           THEN <<Append(group, Opcode(c.tag, c.i1, Min(c.i2, c.i1 + n),
                                       c.j1, Min(c.j2, c.j1 + n)))>>
                \o GroupLoop(Tail(codes),
                             <<Opcode(c.tag, Max(c.i1, c.i2 - n), c.i2,
                                      Max(c.j1, c.j2 - n), c.j2)>>)
           ELSE GroupLoop(Tail(codes), Append(group, c))

(* The fix-ups of get_grouped_opcodes before its loop: no opcode at all    *)
(* counts as one equal run; a leading and a trailing equal run keep n      *)
(* lines of context.                                                       *)
NonEmptyCodes(codes) ==
  IF codes = <<>> THEN <<Opcode("equal", 0, 1, 0, 1)>> ELSE codes

TrimLeading(codes) ==
  IF codes[1].tag = "equal"
  THEN [codes EXCEPT ![1] =
          Opcode(@.tag, Max(@.i1, @.i2 - ContextLines), @.i2,
                 Max(@.j1, @.j2 - ContextLines), @.j2)]
  ELSE codes

TrimTrailing(codes) ==
  IF codes[Len(codes)].tag = "equal"
  THEN [codes EXCEPT ![Len(codes)] =
          Opcode(@.tag, @.i1, Min(@.i2, @.i1 + ContextLines),
                 @.j1, Min(@.j2, @.j1 + ContextLines))]
  ELSE codes

GetGroupedOpcodes(a, b) ==
  GroupLoop(TrimTrailing(TrimLeading(NonEmptyCodes(GetOpcodes(a, b)))), <<>>)

(* _format_range_unified *)
FormatRangeUnified(start, stop) ==
  LET beginning == start + 1
      length    == stop - start
  IN  IF length = 1 THEN ToString(beginning)
      ELSE ToString(IF length = 0 THEN beginning - 1 ELSE beginning)
           \o "," \o ToString(length)

(* The lines s[lo:hi], each with the prefix put in front. *)
RECURSIVE Prefixed(_, _, _, _)
Prefixed(prefix, s, lo, hi) ==
  IF lo >= hi THEN <<>>
  ELSE <<prefix \o s[lo + 1]>> \o Prefixed(prefix, s, lo + 1, hi)

RECURSIVE GroupLines(_, _, _)
GroupLines(group, a, b) ==
  IF group = <<>> THEN <<>>
  ELSE LET c == Head(group)
       IN  (IF c.tag = "equal" THEN Prefixed(" ", a, c.i1, c.i2)
            ELSE (IF c.tag \in {"replace", "delete"}
                  THEN Prefixed("-", a, c.i1, c.i2) ELSE <<>>)
                 \o (IF c.tag \in {"replace", "insert"}
                     THEN Prefixed("+", b, c.j1, c.j2) ELSE <<>>))
           \o GroupLines(Tail(group), a, b)

RECURSIVE HunkLines(_, _, _)
HunkLines(groups, a, b) ==
  IF groups = <<>> THEN <<>>
  ELSE LET group == Head(groups)
           first == group[1]
           last  == group[Len(group)]
       IN  <<"@@ -" \o FormatRangeUnified(first.i1, last.i2)
                 \o " +" \o FormatRangeUnified(first.j1, last.j2) \o " @@">>
           \o GroupLines(group, a, b)
           \o HunkLines(Tail(groups), a, b)

(* unified_diff over two lists of lines: nothing when no group reports a   *)
(* change, else the two file headers and the hunks.                        *)
UnifiedDiff(a, b) ==
  LET groups == GetGroupedOpcodes(a, b)
  IN  IF groups = <<>> THEN <<>>
      ELSE <<"--- File 1", "+++ File 2">> \o HunkLines(groups, a, b)

(***************************************************************************)
(* JSON values, as json.loads produces them.  Every value is a record of   *)
(* the same shape: t is the Python type, n the number (in thousandths),    *)
(* s the string, l the list of strings, o the dict as a set of <<key,      *)
(* text>> pairs.  JAbsent marks a key the dict does not hold.              *)
(***************************************************************************)
JVal(t, n, s, l, o) == [t |-> t, n |-> n, s |-> s, l |-> l, o |-> o]
JAbsent   == JVal("absent", 0, "", <<>>, {})
JNull     == JVal("null", 0, "", <<>>, {})
JNum(n)   == JVal("num", n, "", <<>>, {})
JStr(s)   == JVal("str", 0, s, <<>>, {})
JList(l)  == JVal("list", 0, "", l, {})
JDict(o)  == JVal("dict", 0, "", <<>>, o)

(* dict.get(key, default) *)
Get(obj, key, default) ==
  IF obj[key] = JAbsent THEN default ELSE obj[key]

(* The keys the two prompts ask for. *)
ReplyKeys ==
  {"similarity_score", "confidence", "semantic_differences",
   "technical_analysis", "reasoning", "categories",
   "similarity_percentage", "main_differences", "explanation"}

EmptyObject == [k \in ReplyKeys |-> JAbsent]

(***************************************************************************)
(* What one call of client.chat.completions.create can do: kind "error"    *)
(* is a failed call (transport, quota, timeout), "none" a reply without    *)
(* content, "text" a content that is not JSON, "scalar" a JSON document    *)
(* that is not an object, "object" a JSON object, obj.                     *)
(***************************************************************************)
Reply(kind, obj) == [kind |-> kind, obj |-> obj]

NoReply == Reply("", EmptyObject)

FailedReplies ==
  {Reply(k, EmptyObject) : k \in {"error", "none", "text", "scalar"}}

ScoreValues ==
  {JAbsent, JNull, JStr("high"), JNum(0), JNum(500), JNum(1500)}

ConfidenceValues == {JAbsent, JNum(900), JNum(-200)}

DifferenceValues == {JAbsent, JNull, JList(<<"beam W14x30 became W16x40">>)}

(* technical_analysis, reasoning and categories: all three given, or none. *)
DetailValues ==
  { <<JAbsent, JAbsent, JAbsent>>,
    <<JDict({<<"major_differences", "beam size">>}),
      JStr("the beams differ"),
      JDict({<<"dimensions", "0.5">>})>> }

DetailedObjects ==
  { [EmptyObject EXCEPT !["similarity_score"] = sc,
                        !["confidence"] = cf,
                        !["semantic_differences"] = df,
                        !["technical_analysis"] = dv[1],
                        !["reasoning"] = dv[2],
                        !["categories"] = dv[3]] :
      sc \in ScoreValues, cf \in ConfidenceValues,
      df \in DifferenceValues, dv \in DetailValues }

DetailedReplies ==
  FailedReplies \cup {Reply("object", o) : o \in DetailedObjects}

PercentageValues ==
  {JAbsent, JNull, JStr("50%"), JNum(0), JNum(50000), JNum(150000)}

ExplanationValues == {JAbsent, JStr("mostly the same")}

SimpleObjects ==
  { [EmptyObject EXCEPT !["similarity_percentage"] = pc_,
                        !["main_differences"] = df,
                        !["explanation"] = ex] :
      pc_ \in PercentageValues, df \in DifferenceValues,
      ex \in ExplanationValues }

SimpleReplies ==
  FailedReplies \cup {Reply("object", o) : o \in SimpleObjects}

(***************************************************************************)
(* SemanticComparisonResult (the timestamp is left out).                   *)
(***************************************************************************)
SemanticComparisonResult(score, conf, diffs, tech, reasoning, cats, raw) ==
  [similarity_score     |-> score,
   confidence           |-> conf,
   semantic_differences |-> diffs,
   technical_analysis   |-> tech,
   reasoning            |-> reasoning,
   categories           |-> cats,
   raw_similarity       |-> raw]

(* Python's None where a SemanticComparisonResult is expected. *)
NoAnalysis ==
  SemanticComparisonResult(JAbsent, JAbsent, JAbsent, JAbsent, JAbsent,
                           JAbsent, -1)

(* What a tier hands back: raised says an exception leaves the method,     *)
(* next names the tier to go to ("" when the method returns), error the    *)
(* exception the tier caught.                                              *)
TierOutcome(raised, next, tier, error, result) ==
  [raised |-> raised, next |-> next, tier |-> tier, error |-> error,
   result |-> result]

(* The exception, if any, that reading a reply as a JSON object raises:    *)
(* the call itself, json.loads on None or on a text that is not JSON,      *)
(* .get on a value that is not a dict.                                     *)
DecodeError(reply) ==
  CASE reply.kind = "error"  -> "APIError"
    [] reply.kind = "none"   -> "TypeError"
    [] reply.kind = "text"   -> "JSONDecodeError"
    [] reply.kind = "scalar" -> "AttributeError"
    [] OTHER                 -> ""

(* compare_with_gpt as it would be if a reply without the score field were *)
(* a failure of the detailed attempt.                                      *)
CompareWithGpt_MissingScoreFails(reply, t1, t2) ==
  LET err == IF DecodeError(reply) # "" THEN DecodeError(reply)
             ELSE IF reply.obj["similarity_score"] = JAbsent THEN "KeyError"
             ELSE ""
      d   == reply.obj
  IN  IF err # ""
      THEN TierOutcome(FALSE, "simple", "", err, NoAnalysis)
      ELSE TierOutcome(FALSE, "", "detailed", "",
             SemanticComparisonResult(
               Get(d, "similarity_score", JNum(0)),
               Get(d, "confidence", JNum(0)),
               Get(d, "semantic_differences", JList(<<>>)),
               Get(d, "technical_analysis", JDict({})),
               Get(d, "reasoning", JStr("")),
               Get(d, "categories", JDict({})),
               Ratio(t1, t2)))

(* compare_with_gpt, from the reply of the detailed call on: any exception *)
(* sends the texts to _fallback_simple_comparison; a JSON object becomes   *)
(* the result, absent keys taking their defaults.                          *)
CompareWithGpt(reply, t1, t2) ==
  LET err == DecodeError(reply)
      d   == reply.obj
  IN  IF err # ""
      THEN TierOutcome(FALSE, "simple", "", err, NoAnalysis)
      ELSE TierOutcome(FALSE, "", "detailed", "",
             SemanticComparisonResult(
               Get(d, "similarity_score", JNum(0)),
               Get(d, "confidence", JNum(0)),
               Get(d, "semantic_differences", JList(<<>>)),
               Get(d, "technical_analysis", JDict({})),
               Get(d, "reasoning", JStr("")),
               Get(d, "categories", JDict({})),
               Ratio(t1, t2)))

(* The exception, if any, the simplified attempt raises: those of decoding *)
(* and the TypeError of dividing a value that is not a number by 100.0.    *)
SimpleError(reply) ==
  IF DecodeError(reply) # "" THEN DecodeError(reply)
  ELSE IF Get(reply.obj, "similarity_percentage", JNum(0)).t # "num"
       THEN "TypeError"
       ELSE ""

(* Div100 without the division: the percentage taken as the ratio. *)
Div100_NoDivision(x) == x

(* x / 100.0 *)
Div100(x) == x \div 100

(* The text of a dict entry made from a JSON value. *)
TextOf(v) == IF v.t = "str" THEN v.s ELSE v.t

(* _fallback_simple_comparison as it would be if its handler raised again  *)
(* instead of building the lexical result.                                 *)
FallbackSimpleComparison_Reraises(reply, t1, t2) ==
  LET err == SimpleError(reply)
      d   == reply.obj
  IN  IF err = ""
      THEN TierOutcome(FALSE, "", "simple", "",
             SemanticComparisonResult(
               JNum(Div100(Get(d, "similarity_percentage", JNum(0)).n)),
               JNum(800),
               Get(d, "main_differences", JList(<<>>)),
               JDict({<<"explanation",
                        TextOf(Get(d, "explanation", JStr("")))>>}),
               Get(d, "explanation", JStr("Simple comparison performed")),
               JDict({}),
               Ratio(t1, t2)))
      ELSE TierOutcome(TRUE, "", "", err, NoAnalysis)

(* _fallback_simple_comparison as it would be if the lexical result kept   *)
(* the confidence of the simplified attempt.                               *)
FallbackSimpleComparison_LexicalConfidence(reply, t1, t2) ==
  LET err == SimpleError(reply)
      d   == reply.obj
  IN  IF err = ""
      THEN TierOutcome(FALSE, "", "simple", "",
             SemanticComparisonResult(
               JNum(Div100(Get(d, "similarity_percentage", JNum(0)).n)),
               JNum(800),
               Get(d, "main_differences", JList(<<>>)),
               JDict({<<"explanation",
                        TextOf(Get(d, "explanation", JStr("")))>>}),
               Get(d, "explanation", JStr("Simple comparison performed")),
               JDict({}),
               Ratio(t1, t2)))
      ELSE TierOutcome(FALSE, "", "lexical", err,
             SemanticComparisonResult(
               JNum(Ratio(t1, t2)),
               JNum(800),
               JList(<<"AI comparison failed, using text similarity">>),
               JDict({<<"error", err>>}),
               JStr("Fallback to basic text comparison due to API error"),
               JDict({}),
               Ratio(t1, t2)))

(* _fallback_simple_comparison, from the reply of the simplified call on.  *)
FallbackSimpleComparison(reply, t1, t2) ==
  LET err == SimpleError(reply)
      d   == reply.obj
  IN  IF err = ""
      THEN TierOutcome(FALSE, "", "simple", "",
             SemanticComparisonResult(
               JNum(Div100(Get(d, "similarity_percentage", JNum(0)).n)),
               JNum(800),
               Get(d, "main_differences", JList(<<>>)),
               JDict({<<"explanation",
                        TextOf(Get(d, "explanation", JStr("")))>>}),
               Get(d, "explanation", JStr("Simple comparison performed")),
               JDict({}),
               Ratio(t1, t2)))
      ELSE TierOutcome(FALSE, "", "lexical", err,
             SemanticComparisonResult(
               JNum(Ratio(t1, t2)),
               JNum(300),
               JList(<<"AI comparison failed, using text similarity">>),
               JDict({<<"error", err>>}),
               JStr("Fallback to basic text comparison due to API error"),
               JDict({}),
               Ratio(t1, t2)))

(***************************************************************************)
(* The prompts.  A prompt is modelled by its variant, the model it is sent *)
(* to and the slices of the two texts it quotes.                           *)
(***************************************************************************)
DetailedPromptBudget == 4000
SimplePromptBudget == 2000

(* The model compare_with_gpt is called with: its default. *)
DefaultModel == "gpt-4o"

(* text[:n] *)
Truncate(text, n) == SubSeq(text, 1, Min(Len(text), n))

CreateComparisonPrompt(t1, t2, model) ==
  [variant |-> "detailed", model |-> model,
   text1 |-> Truncate(t1, DetailedPromptBudget),
   text2 |-> Truncate(t2, DetailedPromptBudget)]

(* The simplified prompt as it would be if it went to the fallback model   *)
(* of the configuration.                                                   *)
CreateSimpleComparisonPrompt_FallbackModel(t1, t2, model) ==
  [variant |-> "simple", model |-> "gpt-3.5-turbo",
   text1 |-> Truncate(t1, SimplePromptBudget),
   text2 |-> Truncate(t2, SimplePromptBudget)]

CreateSimpleComparisonPrompt(t1, t2, model) ==
  [variant |-> "simple", model |-> model,
   text1 |-> Truncate(t1, SimplePromptBudget),
   text2 |-> Truncate(t2, SimplePromptBudget)]

(***************************************************************************)
(* The orchestrator, DrawingComparator.                                    *)
(***************************************************************************)

(* ComparisonResult as it would be if raw_similarity were given the final  *)
(* score.                                                                  *)
ComparisonResult_RawIsFinal(score, diffs, t1, t2, analysis, how, raw) ==
  [similarity_score  |-> score,
   differences       |-> diffs,
   file1_text        |-> t1,
   file2_text        |-> t2,
   ai_analysis       |-> analysis,
   comparison_method |-> how,
   raw_similarity    |-> IF score.t = "num" THEN score.n ELSE raw]

(* ComparisonResult (the timestamp is left out). *)
ComparisonResult(score, diffs, t1, t2, analysis, how, raw) ==
  [similarity_score  |-> score,
   differences       |-> diffs,
   file1_text        |-> t1,
   file2_text        |-> t2,
   ai_analysis       |-> analysis,
   comparison_method |-> how,
   raw_similarity    |-> raw]

(* No ComparisonResult: nothing was returned. *)
NoResult == ComparisonResult(JAbsent, JAbsent, <<>>, <<>>, NoAnalysis, "", -1)

(* The methods a request can ask for; "AI" stands for every string that is *)
(* none of the three documented ones.                                      *)
Methods == {"basic", "ai", "auto", "AI"}

(* InitAiComparison as it would be if the flag were only cleared when the  *)
(* key is missing, and the exception of SemanticComparator(...) left the   *)
(* constructor.                                                            *)
InitAiComparison_NoHandler(enabled, has_key, ctor_raises) ==
  IF enabled /\ has_key /\ ~ctor_raises
  THEN [use_ai_comparison |-> TRUE, semantic_comparator |-> TRUE,
        raised |-> FALSE]
  ELSE [use_ai_comparison |-> enabled /\ has_key,
        semantic_comparator |-> FALSE,
        raised |-> enabled /\ has_key /\ ctor_raises]

(* The AI part of __init__: the two fields once the constructor is done.   *)
(* enabled is the use_ai_comparison argument, has_key says OPENAI_API_KEY  *)
(* is set, ctor_raises that SemanticComparator(...) raises.                *)
(* Nothing raised in this part leaves the constructor.                     *)
InitAiComparison(enabled, has_key, ctor_raises) ==
  IF enabled /\ has_key /\ ~ctor_raises
  THEN [use_ai_comparison |-> TRUE, semantic_comparator |-> TRUE,
        raised |-> FALSE]
  ELSE [use_ai_comparison |-> FALSE, semantic_comparator |-> FALSE,
        raised |-> FALSE]

(* ModeBranch as it would be if "basic" tried the AI client when there is  *)
(* one.                                                                    *)
ModeBranch_BasicTriesAi(m, use_ai, comparator) ==
  IF m = "basic" THEN (IF comparator THEN "auto_ai" ELSE "basic")
  ELSE IF m = "ai" THEN (IF ~comparator THEN "unavailable" ELSE "ai")
  ELSE IF use_ai /\ comparator THEN "auto_ai" ELSE "auto_basic"

(* ModeBranch as it would be if "ai" without a client fell back to the     *)
(* lexical comparison instead of raising.                                  *)
ModeBranch_AiFallsBack(m, use_ai, comparator) ==
  IF m = "basic" THEN "basic"
  ELSE IF m = "ai" THEN (IF ~comparator THEN "auto_basic" ELSE "ai")
  ELSE IF use_ai /\ comparator THEN "auto_ai" ELSE "auto_basic"

(* ModeBranch as it would be if "auto" did not test for the client.        *)
ModeBranch_AutoSkipsTest(m, use_ai, comparator) ==
  IF m = "basic" THEN "basic"
  ELSE IF m = "ai" THEN (IF ~comparator THEN "unavailable" ELSE "ai")
  ELSE "auto_ai"

(* ModeBranch as it would be if a method that is none of the three         *)
(* documented ones were rejected.                                          *)
ModeBranch_RejectsUnknown(m, use_ai, comparator) ==
  IF m = "basic" THEN "basic"
  ELSE IF m = "ai" THEN (IF ~comparator THEN "unavailable" ELSE "ai")
  ELSE IF m # "auto" THEN "unavailable"
  ELSE IF use_ai /\ comparator THEN "auto_ai" ELSE "auto_basic"

(* The if / elif / else on method of compare_with_method: the branch taken *)
(* and, inside it, whether the AI client is there.                         *)
ModeBranch(m, use_ai, comparator) ==
  IF m = "basic" THEN "basic"
  ELSE IF m = "ai" THEN (IF ~comparator THEN "unavailable" ELSE "ai")
  ELSE IF use_ai /\ comparator THEN "auto_ai" ELSE "auto_basic"

(* f"{final_similarity:.1%}" raises unless the value is a number. *)
Formattable(v) == v.t = "num"

(* The try block around compare_with_gpt in the branches "ai" and "auto",  *)
(* from the return of compare_with_gpt on.  The three assignments are made *)
(* before the print that formats the score; the handler of "ai" raises,    *)
(* the handler of "auto" only relabels the method.                         *)
AiBranch(forced, raised, analysis, raw, basic_diffs) ==
  LET failed == raised \/ ~Formattable(analysis.similarity_score)
  IN  [raised            |-> failed /\ forced,
       ai_analysis       |-> IF raised THEN NoAnalysis ELSE analysis,
       final_similarity  |-> IF raised THEN JNum(raw)
                             ELSE analysis.similarity_score,
       final_differences |-> IF raised THEN JList(basic_diffs)
                             ELSE analysis.semantic_differences,
       comparison_method |-> IF failed /\ ~forced THEN "basic_fallback"
                             ELSE IF raised THEN "basic"
                             ELSE "ai"]

VARIABLES
  pc,                  \* where the program is
  use_ai_comparison,   \* DrawingComparator.use_ai_comparison
  semantic_comparator, \* DrawingComparator.semantic_comparator is set
  method,              \* compare_with_method: the method argument
  text1, text2,        \* the extracted texts
  raw_similarity,      \* local raw_similarity
  basic_differences,   \* local basic_differences
  branch,              \* the branch of the if / elif / else being run
  ai_analysis,         \* local ai_analysis
  final_similarity,    \* local final_similarity
  final_differences,   \* local final_differences
  comparison_method,   \* local comparison_method
  model_calls,         \* calls of chat.completions.create in this request
  prompts,             \* the prompts sent in this request, in order
  detailed_reply,      \* what the detailed call did
  simple_reply,        \* what the simplified call did
  detailed_error,      \* the exception the detailed attempt caught
  simple_error,        \* the exception the simplified attempt caught
  tier,                \* the tier that built the result of compare_with_gpt
  gpt_result,          \* what compare_with_gpt returned
  gpt_raised,          \* an exception left compare_with_gpt
  result,              \* what compare_with_method returned
  error,               \* the exception compare_with_method raised
  results,             \* get_consensus_result: the results argument
  consensus_pc,        \* where the call of get_consensus_result is
  consensus,           \* what get_consensus_result returned
  consensus_error,     \* the exception get_consensus_result raised
  models_left,         \* compare_with_different_models: models still to ask
  attempts,            \* what happened to each model asked so far
  req_pc,              \* /compare: where each request is
  filepaths,           \* /compare: filepath1 and filepath2 of each request
  extracted,           \* the document each text of a request was read from
  raised,              \* the exception on its way out of each request
  status,              \* the HTTP status each request was answered with
  folder,              \* the upload folder: the document under each name
  bucket,              \* the storage bucket: the document under each blob
  file_size,           \* validate_file_size: the size of the file, in bytes
  is_valid,            \* validate_file_size: the check that decided
  effective_limit      \* what Config.get_effective_limit returned

frame == <<method, text1, text2, raw_similarity, basic_differences, branch,
           ai_analysis, final_similarity, final_differences,
           comparison_method>>

cascade == <<model_calls, prompts, detailed_reply, simple_reply,
             detailed_error, simple_error, tier, gpt_result, gpt_raised>>

engine == <<results, consensus_pc, consensus, consensus_error>>

loop == <<models_left, attempts>>

uploads == <<req_pc, filepaths, extracted, raised, status, folder, bucket>>

limits == <<file_size, is_valid, effective_limit>>

(* What the orchestrator never touches. *)
aside == <<engine, loop, uploads, limits>>

orchestrator == <<pc, use_ai_comparison, semantic_comparator, frame,
                  cascade, result, error>>

vars == <<orchestrator, aside>>

(* No request is being served: the locals of compare_with_method and of    *)
(* the cascade do not exist.                                               *)
NoFrame ==
  /\ method = "" /\ text1 = <<>> /\ text2 = <<>>
  /\ raw_similarity = -1 /\ basic_differences = <<>> /\ branch = ""
  /\ ai_analysis = NoAnalysis /\ final_similarity = JAbsent
  /\ final_differences = JAbsent /\ comparison_method = ""

NoCascade ==
  /\ model_calls = 0 /\ prompts = <<>>
  /\ detailed_reply = NoReply /\ simple_reply = NoReply
  /\ detailed_error = "" /\ simple_error = ""
  /\ tier = "" /\ gpt_result = NoAnalysis /\ gpt_raised = FALSE

(* get_consensus_result is not being called. *)
NoConsensusCall ==
  /\ results = <<>> /\ consensus_pc = "idle"
  /\ consensus = NoAnalysis /\ consensus_error = ""

(* compare_with_different_models is not being called. *)
NoModelsLoop == models_left = <<>> /\ attempts = <<>>

(* The requests that can be in the route at the same time. *)
Requests == {1, 2}

(* A document: the file a request uploaded as its first or second one.     *)
Doc(owner, slot) == [owner |-> owner, slot |-> slot]

(* No document: the name is free, the text was not read. *)
NoDoc == Doc(0, 0)

(* The names of the uploads, after secure_filename: either both requests   *)
(* use the same two names, or each its own.                                *)
OwnNames == << <<"east.pdf", "east.png">>, <<"west.pdf", "west.png">> >>
NameChoices(r) == {<<"plan.pdf", "detail.png">>, OwnNames[r]}
Names == {"plan.pdf", "detail.png", "east.pdf", "east.png",
          "west.pdf", "west.png"}

(* No request has arrived; the folder and the bucket are empty. *)
NoUploads ==
  /\ req_pc = [r \in Requests |-> "idle"]
  /\ filepaths = [r \in Requests |-> <<"", "">>]
  /\ extracted = [r \in Requests |-> <<NoDoc, NoDoc>>]
  /\ raised = [r \in Requests |-> ""]
  /\ status = [r \in Requests |-> 0]
  /\ folder = [n \in Names |-> NoDoc]
  /\ bucket = [n \in Names |-> NoDoc]

(* No file is being validated. *)
NoLimits == file_size = 0 /\ is_valid = "" /\ effective_limit = -1

Init ==
  /\ pc = "new"
  /\ use_ai_comparison = FALSE
  /\ semantic_comparator = FALSE
  /\ NoFrame
  /\ NoCascade
  /\ result = NoResult
  /\ error = ""
  /\ NoConsensusCall
  /\ NoModelsLoop
  /\ NoUploads
  /\ NoLimits

(***************************************************************************)
(* Actions.                                                                *)
(***************************************************************************)

(* DrawingComparator(): the constructor raises when the Google Cloud       *)
(* settings are missing; otherwise it sets the two AI fields.              *)
Construct ==
  /\ pc = "new"
  /\ \E google_ok, enabled, has_key, ctor_raises \in BOOLEAN :
       IF google_ok
       THEN LET ai == InitAiComparison(enabled, has_key, ctor_raises)
            IN  /\ pc' = IF ai.raised THEN "no_comparator" ELSE "ready"
                /\ error' = IF ai.raised THEN "ValueError" ELSE error
                /\ use_ai_comparison' = ai.use_ai_comparison
                /\ semantic_comparator' = ai.semantic_comparator
       ELSE /\ pc' = "no_comparator"
            /\ error' = "Exception"
            /\ UNCHANGED <<use_ai_comparison, semantic_comparator>>
  /\ UNCHANGED <<frame, cascade, result, aside>>

(* compare_with_method, when extract_text_from_file raises. *)
ExtractionFails ==
  /\ pc = "ready"
  /\ \E m \in Methods : method' = m
  /\ pc' = "raised"
  /\ error' = "ExtractionError"
  /\ UNCHANGED <<use_ai_comparison, semantic_comparator, text1, text2,
                 raw_similarity, basic_differences, branch, ai_analysis,
                 final_similarity, final_differences, comparison_method,
                 cascade, result, aside>>

(* compare_with_method, from its start to the first model call or, when    *)
(* the branch makes none, to its end: the texts are extracted, the lexical *)
(* ratio and the diff computed, the defaults set, the branch chosen.       *)
BeginCompare ==
  /\ pc = "ready"
  /\ \E m \in Methods, t1 \in Texts, t2 \in Texts :
       LET raw   == Ratio(t1, t2)
           diffs == UnifiedDiff(SplitLines(t1), SplitLines(t2))
           b     == ModeBranch(m, use_ai_comparison, semantic_comparator)
       IN  /\ method' = m
           /\ text1' = t1
           /\ text2' = t2
           /\ raw_similarity' = raw
           /\ basic_differences' = diffs
           /\ ai_analysis' = NoAnalysis
           /\ final_similarity' = JNum(raw)
           /\ comparison_method' = "basic"
           /\ final_differences' = JList(diffs)
           /\ branch' = b
           /\ CASE b \in {"basic", "auto_basic"} ->
                     /\ pc' = "done"
                     /\ result' = ComparisonResult(JNum(raw), JList(diffs),
                                    t1, t2, NoAnalysis, "basic", raw)
                     /\ error' = error
                [] b = "unavailable" ->
                     /\ pc' = "raised"
                     /\ error' = "ValueError"
                     /\ result' = result
                [] OTHER ->
                     /\ pc' = "detailed_call"
                     /\ UNCHANGED <<result, error>>
  /\ UNCHANGED <<use_ai_comparison, semantic_comparator, cascade, aside>>

(* compare_with_gpt: the detailed prompt is sent and the reply handled. *)
DetailedCall ==
  /\ pc = "detailed_call"
  /\ \E reply \in DetailedReplies :
       LET out == CompareWithGpt(reply, text1, text2)
       IN  /\ model_calls' = model_calls + 1
           /\ prompts' = Append(prompts,
                CreateComparisonPrompt(text1, text2, DefaultModel))
           /\ detailed_reply' = reply
           /\ detailed_error' = out.error
           /\ IF ~out.raised /\ out.next = "simple"
              THEN /\ pc' = "simple_call"
                   /\ UNCHANGED <<tier, gpt_result, gpt_raised>>
              ELSE /\ pc' = "gpt_returned"
                   /\ tier' = out.tier
                   /\ gpt_result' = out.result
                   /\ gpt_raised' = out.raised
  /\ UNCHANGED <<use_ai_comparison, semantic_comparator, frame, simple_reply,
                 simple_error, result, error, aside>>

(* _fallback_simple_comparison: the simplified prompt is sent and the      *)
(* reply handled; any exception ends in the lexical result.  The call made *)
(* by the handler of json.JSONDecodeError is itself inside the outer try   *)
(* of compare_with_gpt: an exception leaving it would be caught there and  *)
(* _fallback_simple_comparison called once more.                           *)
SimpleCall ==
  /\ pc = "simple_call"
  /\ \E reply \in SimpleReplies :
     \E out \in {FallbackSimpleComparison(reply, text1, text2)} :
       LET again == /\ out.raised
                    /\ detailed_error = "JSONDecodeError"
                    /\ model_calls = 1
       IN  /\ model_calls' = model_calls + 1
           /\ prompts' = Append(prompts,
                CreateSimpleComparisonPrompt(text1, text2, DefaultModel))
           /\ simple_reply' = reply
           /\ simple_error' = out.error
           /\ IF again
              THEN /\ pc' = "simple_call"
                   /\ UNCHANGED <<tier, gpt_result, gpt_raised>>
              ELSE /\ pc' = "gpt_returned"
                   /\ tier' = out.tier
                   /\ gpt_result' = out.result
                   /\ gpt_raised' = out.raised
  /\ UNCHANGED <<use_ai_comparison, semantic_comparator, frame,
                 detailed_reply, detailed_error, result, error, aside>>

(* compare_with_method, from the return of compare_with_gpt to its end. *)
FinishAi ==
  /\ pc = "gpt_returned"
  /\ LET o == AiBranch(branch = "ai", gpt_raised, gpt_result,
                       raw_similarity, basic_differences)
     IN  /\ ai_analysis' = o.ai_analysis
         /\ final_similarity' = o.final_similarity
         /\ final_differences' = o.final_differences
         /\ comparison_method' = o.comparison_method
         /\ IF o.raised
            THEN /\ pc' = "raised"
                 /\ error' = "Exception"
                 /\ result' = result
            ELSE /\ pc' = "done"
                 /\ error' = error
                 /\ result' = ComparisonResult(o.final_similarity,
                                o.final_differences, text1, text2,
                                o.ai_analysis, o.comparison_method,
                                raw_similarity)
  /\ UNCHANGED <<use_ai_comparison, semantic_comparator, method, text1,
                 text2, raw_similarity, basic_differences, branch, cascade,
                 aside>>

(* The route has answered; the comparator waits for the next request. *)
NextRequest ==
  /\ pc \in {"done", "raised"}
  /\ pc' = "ready"
  /\ method' = "" /\ text1' = <<>> /\ text2' = <<>>
  /\ raw_similarity' = -1 /\ basic_differences' = <<>> /\ branch' = ""
  /\ ai_analysis' = NoAnalysis /\ final_similarity' = JAbsent
  /\ final_differences' = JAbsent /\ comparison_method' = ""
  /\ model_calls' = 0 /\ prompts' = <<>>
  /\ detailed_reply' = NoReply /\ simple_reply' = NoReply
  /\ detailed_error' = "" /\ simple_error' = ""
  /\ tier' = "" /\ gpt_result' = NoAnalysis /\ gpt_raised' = FALSE
  /\ result' = NoResult
  /\ error' = ""
  /\ UNCHANGED <<use_ai_comparison, semantic_comparator, aside>>

Next ==
  \/ Construct
  \/ ExtractionFails
  \/ BeginCompare
  \/ DetailedCall
  \/ SimpleCall
  \/ FinishAi
  \/ NextRequest

Spec == Init /\ [][Next]_vars

TypeOK ==
  /\ pc \in {"new", "no_comparator", "ready", "detailed_call",
             "simple_call", "gpt_returned", "done", "raised"}
  /\ use_ai_comparison \in BOOLEAN
  /\ semantic_comparator \in BOOLEAN
  /\ method \in Methods \cup {""}
  /\ model_calls \in 0 .. 2
  /\ tier \in {"", "detailed", "simple", "lexical"}
  /\ error \in {"", "ExtractionError", "ValueError", "Exception"}

(***************************************************************************)
(* The consensus engine, SemanticComparator.get_consensus_result.  The     *)
(* results argument, a dict, is the sequence of its items in iteration     *)
(* order.                                                                  *)
(***************************************************************************)
MaxResults == 2

(* The keys of the dict, in the order they were inserted. *)
ModelNames == <<"gpt-4o", "gpt-3.5-turbo", "gpt-4", "gpt-4-turbo">>

(* What two models found, apart from the score and the confidence: the    *)
(* second found what the first found and one difference more.              *)
Profiles ==
  {[semantic_differences |-> <<"beam W14x30 became W16x40">>,
    technical_analysis   |-> JDict({<<"major_differences", "beam size">>}),
    categories           |-> JDict({<<"dimensions", "0.9">>}),
    reasoning            |-> JStr("one beam was resized"),
    raw_similarity       |-> 900],
   [semantic_differences |-> <<"beam W14x30 became W16x40",
                               "grid line C moved">>,
    technical_analysis   |-> JDict({<<"major_differences", "grid spacing">>}),
    categories           |-> JDict({<<"materials", "0.4">>}),
    reasoning            |-> JStr("the grid moved"),
    raw_similarity       |-> 500]}

(* The results compare_with_gpt can have returned: the score and the       *)
(* confidence are whatever the model reported, inside [0, 1] or not.       *)
NumericResults ==
  {SemanticComparisonResult(JNum(score), JNum(conf),
                            JList(p.semantic_differences),
                            p.technical_analysis, p.reasoning, p.categories,
                            p.raw_similarity) :
     score \in {400, 800},
     conf \in {-200, 0, 1000, 1500},
     p \in Profiles}

(* Results with a null where a number or a list is expected. *)
NullResults ==
  {SemanticComparisonResult(JNull, JNum(900), JList(<<>>), JDict({}),
                            JStr(""), JDict({}), 1000),
   SemanticComparisonResult(JNum(500), JNum(900), JNull, JDict({}),
                            JStr(""), JDict({}), 1000)}

ConsensusInputs == NumericResults \cup NullResults

(* The dicts of at most MaxResults results. *)
ResultMaps ==
  UNION {{[i \in 1 .. n |-> [model |-> ModelNames[i], result |-> f[i]]] :
            f \in [1 .. n -> ConsensusInputs]} : n \in 0 .. MaxResults}

(* The loop over results.items(), up to item n: the four accumulators. *)
RECURSIVE TotalWeightedSimilarity(_, _)
TotalWeightedSimilarity(rs, n) ==
  IF n = 0 THEN 0
  ELSE TotalWeightedSimilarity(rs, n - 1)
         + rs[n].result.similarity_score.n * rs[n].result.confidence.n

RECURSIVE TotalWeight(_, _)
TotalWeight(rs, n) ==
  IF n = 0 THEN 0
  ELSE TotalWeight(rs, n - 1) + rs[n].result.confidence.n

RECURSIVE AllDifferences(_, _)
AllDifferences(rs, n) ==
  IF n = 0 THEN <<>>
  ELSE AllDifferences(rs, n - 1) \o rs[n].result.semantic_differences.l

(* "; ".join(all_reasoning) *)
RECURSIVE AllReasoning(_, _)
AllReasoning(rs, n) ==
  IF n = 0 THEN ""
  ELSE (IF n = 1 THEN "" ELSE AllReasoning(rs, n - 1) \o "; ")
         \o rs[n].model \o ": " \o TextOf(rs[n].result.reasoning)

(* The loop raises TypeError at a result whose score or confidence is not  *)
(* a number (None * weight) or whose differences are not a list            *)
(* (extend(None)).                                                         *)
LoopRaises(rs) ==
  \E i \in 1 .. Len(rs) :
    \/ rs[i].result.similarity_score.t # "num"
    \/ rs[i].result.confidence.t # "num"
    \/ rs[i].result.semantic_differences.t # "list"


(* total_weighted_similarity / total_weight if total_weight > 0 else 0 *)
ConsensusSimilarity(rs) ==
  IF TotalWeight(rs, Len(rs)) > 0
  THEN TotalWeightedSimilarity(rs, Len(rs)) \div TotalWeight(rs, Len(rs))
  ELSE 0

(* The consensus confidence without its cap. *)
ConsensusConfidence_Uncapped(rs) == TotalWeight(rs, Len(rs)) \div Len(rs)

(* min(1.0, total_weight / len(results)) *)
ConsensusConfidence(rs) == Min(1000, TotalWeight(rs, Len(rs)) \div Len(rs))

(* max as it would be if it kept the last of the results of highest        *)
(* confidence.                                                             *)
BestResult_LastOnTie(rs) ==
  LET i == CHOOSE k \in 1 .. Len(rs) :
             /\ \A j \in 1 .. Len(rs) :
                  rs[j].result.confidence.n <= rs[k].result.confidence.n
             /\ \A j \in (k + 1) .. Len(rs) :
                  rs[j].result.confidence.n < rs[k].result.confidence.n
  IN  rs[i].result

(* max(results.values(), key=lambda r: r.confidence): the first of the     *)
(* results of highest confidence.                                          *)
BestResult(rs) ==
  LET i == CHOOSE k \in 1 .. Len(rs) :
             /\ \A j \in 1 .. Len(rs) :
                  rs[j].result.confidence.n <= rs[k].result.confidence.n
             /\ \A j \in 1 .. (k - 1) :
                  rs[j].result.confidence.n < rs[k].result.confidence.n
  IN  rs[i].result

(* The elements of a list. *)
Elements(list) == {list[i] : i \in 1 .. Len(list)}

(* list(all_differences): the duplicates kept. *)
ListOfSet_KeepsDuplicates(list) == {list}

(* list(set(all_differences)): the lists it can be.  The order in which a  *)
(* set of strings is iterated is not fixed by the language.                *)
ListOfSet(list) ==
  {order \in [1 .. Cardinality(Elements(list)) -> Elements(list)] :
     \A i, j \in 1 .. Cardinality(Elements(list)) :
       order[i] = order[j] => i = j}

(* What a call ends with: the exception raised, or the result returned. *)
ConsensusOutcome(err, res) == [error |-> err, result |-> res]

(* The result built after the loop; differences is list(set(...)). *)
BuildConsensus(rs, differences) ==
  SemanticComparisonResult(
    JNum(ConsensusSimilarity(rs)),
    JNum(ConsensusConfidence(rs)),
    JList(differences),
    BestResult(rs).technical_analysis,
    JStr("Consensus from multiple models: " \o AllReasoning(rs, Len(rs))),
    BestResult(rs).categories,
    BestResult(rs).raw_similarity)

(* get_consensus_result without the return of the only result. *)
GetConsensusResult_NoShortcut(rs, differences) ==
  IF Len(rs) = 0 THEN ConsensusOutcome("ValueError", NoAnalysis)
  ELSE IF LoopRaises(rs) THEN ConsensusOutcome("TypeError", NoAnalysis)
  ELSE ConsensusOutcome("", BuildConsensus(rs, differences))

(* get_consensus_result as it would be if an empty dict gave a result of   *)
(* defaults.                                                               *)
GetConsensusResult_EmptyDefaults(rs, differences) ==
  IF Len(rs) = 0
  THEN ConsensusOutcome("",
         SemanticComparisonResult(JNum(0), JNum(0), JList(<<>>), JDict({}),
                                  JStr(""), JDict({}), 0))
  ELSE IF Len(rs) = 1 THEN ConsensusOutcome("", rs[1].result)
  ELSE IF LoopRaises(rs) THEN ConsensusOutcome("TypeError", NoAnalysis)
  ELSE ConsensusOutcome("", BuildConsensus(rs, differences))

(* get_consensus_result(results) *)
GetConsensusResult(rs, differences) ==
  IF Len(rs) = 0 THEN ConsensusOutcome("ValueError", NoAnalysis)
  ELSE IF Len(rs) = 1 THEN ConsensusOutcome("", rs[1].result)
  ELSE IF LoopRaises(rs) THEN ConsensusOutcome("TypeError", NoAnalysis)
  ELSE ConsensusOutcome("", BuildConsensus(rs, differences))

(* A caller holds a dict of results and is about to hand it over. *)
InitConsensus ==
  /\ pc = "new"
  /\ use_ai_comparison = FALSE
  /\ semantic_comparator = FALSE
  /\ NoFrame
  /\ NoCascade
  /\ result = NoResult
  /\ error = ""
  /\ results \in ResultMaps
  /\ consensus_pc = "called"
  /\ consensus = NoAnalysis
  /\ consensus_error = ""
  /\ NoModelsLoop
  /\ NoUploads
  /\ NoLimits

(* The whole call of get_consensus_result. *)
ConsensusCall ==
  /\ consensus_pc = "called"
  /\ \E differences \in ListOfSet(AllDifferences(results, Len(results))) :
       LET out == GetConsensusResult(results, differences)
       IN  /\ consensus' = out.result
           /\ consensus_error' = out.error
           /\ consensus_pc' = IF out.error = "" THEN "returned" ELSE "raised"
  /\ UNCHANGED <<orchestrator, results, loop, uploads, limits>>

NextConsensus == ConsensusCall

SpecConsensus == InitConsensus /\ [][NextConsensus]_vars

(***************************************************************************)
(* The multi-model comparison, compare_with_different_models, and a caller *)
(* that hands the dict it returns to get_consensus_result.                 *)
(***************************************************************************)

(* models *)
Models == <<"gpt-4o", "gpt-3.5-turbo">>

(* What the detailed call of one model can do here: fail, answer with a    *)
(* text that is not JSON, answer with an object.                           *)
ModelDetailedReplies ==
  {Reply("error", EmptyObject),
   Reply("text", EmptyObject),
   Reply("object",
         [EmptyObject EXCEPT
            !["similarity_score"] = JNum(500),
            !["confidence"] = JNum(900),
            !["semantic_differences"] =
               JList(<<"beam W14x30 became W16x40">>)])}

(* What the simplified call of one model can do here. *)
ModelSimpleReplies ==
  {Reply("error", EmptyObject),
   Reply("object",
         [EmptyObject EXCEPT
            !["similarity_percentage"] = JNum(50000),
            !["main_differences"] = JList(<<"grid line C moved">>)])}

(* compare_with_gpt as a whole, from the replies its calls get. *)
CascadeResult(detailed, simple, t1, t2) ==
  LET first == CompareWithGpt(detailed, t1, t2)
  IN  IF ~first.raised /\ first.next = "simple"
      THEN FallbackSimpleComparison(simple, t1, t2)
      ELSE first

(* What is kept of one turn of the loop: the model, what its calls did     *)
(* (simple is "" when the simplified call was not made), the tier that     *)
(* built the result, whether compare_with_gpt raised.                      *)
Attempt(model, detailed, simple, out) ==
  [model    |-> model,
   detailed |-> detailed.kind,
   simple   |-> IF out.tier = "detailed" THEN "" ELSE simple.kind,
   tier     |-> out.tier,
   raised   |-> out.raised]

(* A caller holds two texts and calls compare_with_different_models. *)
InitModels ==
  /\ pc = "models_loop"
  /\ use_ai_comparison = FALSE
  /\ semantic_comparator = FALSE
  /\ method = ""
  /\ text1 \in Texts
  /\ text2 \in Texts
  /\ raw_similarity = -1 /\ basic_differences = <<>> /\ branch = ""
  /\ ai_analysis = NoAnalysis /\ final_similarity = JAbsent
  /\ final_differences = JAbsent /\ comparison_method = ""
  /\ NoCascade
  /\ result = NoResult
  /\ error = ""
  /\ NoConsensusCall
  /\ models_left = Models
  /\ attempts = <<>>
  /\ NoUploads
  /\ NoLimits

(* One turn of the loop over models: compare_with_gpt is called with the   *)
(* model; its result is stored under the model, or, if it raised, the      *)
(* model is skipped.                                                       *)
CompareModel ==
  /\ pc = "models_loop"
  /\ models_left # <<>>
  /\ \E detailed \in ModelDetailedReplies, simple \in ModelSimpleReplies :
       LET model == Head(models_left)
           out   == CascadeResult(detailed, simple, text1, text2)
       IN  /\ results' = IF out.raised THEN results
                         ELSE Append(results,
                                [model |-> model, result |-> out.result])
           /\ attempts' = Append(attempts,
                            Attempt(model, detailed, simple, out))
           /\ models_left' = Tail(models_left)
  /\ UNCHANGED <<orchestrator, consensus_pc, consensus, consensus_error,
                 uploads, limits>>

(* The loop is over: the dict is returned and handed to                    *)
(* get_consensus_result.                                                   *)
ReturnResults ==
  /\ pc = "models_loop"
  /\ models_left = <<>>
  /\ pc' = "models_returned"
  /\ consensus_pc' = "called"
  /\ UNCHANGED <<use_ai_comparison, semantic_comparator, frame, cascade,
                 result, error, results, consensus, consensus_error, loop,
                 uploads, limits>>

NextModels ==
  \/ CompareModel
  \/ ReturnResults
  \/ ConsensusCall

SpecModels == InitModels /\ [][NextModels]_vars

(***************************************************************************)
(* The route /compare and the part of the comparator that touches files,   *)
(* for requests served at the same time.  The steps are the accesses to    *)
(* the upload folder and to the bucket, both shared by all requests.       *)
(***************************************************************************)

(* file_path.lower().endswith(".pdf") *)
IsPdf(name) == name \in {"plan.pdf", "east.pdf", "west.pdf"}

(* The slot a request saves or extracts next. *)
Slot(r) == IF req_pc[r] \in {"save1", "extract1", "annotate1"} THEN 1 ELSE 2

(* os.remove(name) on the folder. *)
Remove(dir, name) == [dir EXCEPT ![name] = NoDoc]

(* The finally block of compare_with_method: each of the two files is      *)
(* removed if it exists.                                                   *)
RemoveBoth(dir, paths) == Remove(Remove(dir, paths[1]), paths[2])

(* The clean-up of the route: os.remove(filepath1), then                   *)
(* os.remove(filepath2), inside one try; the first failure ends it.        *)
RouteRemove(dir, paths) ==
  IF dir[paths[1]] = NoDoc THEN dir ELSE RemoveBoth(dir, paths)

(* Nothing is being served: the comparator waits in the route module. *)
InitUploads ==
  /\ pc = "new"
  /\ use_ai_comparison = FALSE
  /\ semantic_comparator = FALSE
  /\ NoFrame
  /\ NoCascade
  /\ result = NoResult
  /\ error = ""
  /\ NoConsensusCall
  /\ NoModelsLoop
  /\ NoUploads
  /\ NoLimits

(* A request is received; its two file names passed the checks. *)
Arrive(r) ==
  /\ req_pc[r] = "idle"
  /\ \E paths \in NameChoices(r) : filepaths' = [filepaths EXCEPT ![r] = paths]
  /\ req_pc' = [req_pc EXCEPT ![r] = "save1"]
  /\ UNCHANGED <<extracted, raised, status, folder, bucket>>

(* file1.save(filepath1), file2.save(filepath2): the file is written under *)
(* its name, or the write raises and the route answers 500.                *)
Save(r) ==
  /\ req_pc[r] \in {"save1", "save2"}
  /\ \/ /\ folder' = [folder EXCEPT ![filepaths[r][Slot(r)]] = Doc(r, Slot(r))]
        /\ req_pc' = [req_pc EXCEPT
                        ![r] = IF Slot(r) = 1 THEN "save2" ELSE "extract1"]
        /\ UNCHANGED <<raised, status>>
     \/ /\ raised' = [raised EXCEPT ![r] = "SaveError"]
        /\ status' = [status EXCEPT ![r] = 500]
        /\ req_pc' = [req_pc EXCEPT ![r] = "done"]
        /\ UNCHANGED folder
  /\ UNCHANGED <<filepaths, extracted, bucket>>

(* extract_text_from_file up to its first remote call: a PDF is uploaded   *)
(* to the bucket under its base name; an image is read and sent to the     *)
(* Vision API, which answers with its text or with an error.  A missing    *)
(* file raises.                                                            *)
Extract(r) ==
  /\ req_pc[r] \in {"extract1", "extract2"}
  /\ LET k    == Slot(r)
         name == filepaths[r][k]
         next == IF k = 1 THEN "extract2" ELSE "finally"
     IN  IF folder[name] = NoDoc
         THEN /\ raised' = [raised EXCEPT ![r] = "FileNotFoundError"]
              /\ req_pc' = [req_pc EXCEPT ![r] = "finally"]
              /\ UNCHANGED <<extracted, bucket>>
         ELSE IF IsPdf(name)
         THEN /\ bucket' = [bucket EXCEPT ![name] = folder[name]]
              /\ req_pc' = [req_pc EXCEPT
                              ![r] = IF k = 1 THEN "annotate1"
                                     ELSE "annotate2"]
              /\ UNCHANGED <<extracted, raised>>
         ELSE \/ /\ extracted' = [extracted EXCEPT ![r][k] = folder[name]]
                 /\ req_pc' = [req_pc EXCEPT ![r] = next]
                 /\ UNCHANGED <<raised, bucket>>
              \/ /\ raised' = [raised EXCEPT ![r] = "VisionError"]
                 /\ req_pc' = [req_pc EXCEPT ![r] = "finally"]
                 /\ UNCHANGED <<extracted, bucket>>
  /\ UNCHANGED <<filepaths, status, folder>>

(* extract_text_from_pdf after the upload: batch_annotate_files reads the  *)
(* blob and answers with its text or with an error.                        *)
Annotate(r) ==
  /\ req_pc[r] \in {"annotate1", "annotate2"}
  /\ LET k    == Slot(r)
         name == filepaths[r][k]
         next == IF k = 1 THEN "extract2" ELSE "finally"
     IN  \/ /\ extracted' = [extracted EXCEPT ![r][k] = bucket[name]]
            /\ req_pc' = [req_pc EXCEPT ![r] = next]
            /\ UNCHANGED raised
         \/ /\ raised' = [raised EXCEPT ![r] = "VisionError"]
            /\ req_pc' = [req_pc EXCEPT ![r] = "finally"]
            /\ UNCHANGED extracted
  /\ UNCHANGED <<filepaths, status, folder, bucket>>

(* The finally block of compare_with_method; after it the exception, if    *)
(* any, reaches the route, which answers 500.                              *)
Finally(r) ==
  /\ req_pc[r] = "finally"
  /\ folder' = RemoveBoth(folder, filepaths[r])
  /\ IF raised[r] # ""
     THEN /\ status' = [status EXCEPT ![r] = 500]
          /\ req_pc' = [req_pc EXCEPT ![r] = "done"]
     ELSE /\ req_pc' = [req_pc EXCEPT ![r] = "compared"]
          /\ UNCHANGED status
  /\ UNCHANGED <<filepaths, extracted, raised, bucket>>

(* The route after compare_with_method returned: its own clean-up, then    *)
(* the response.                                                           *)
RouteCleanup(r) ==
  /\ req_pc[r] = "compared"
  /\ folder' = RouteRemove(folder, filepaths[r])
  /\ status' = [status EXCEPT ![r] = 200]
  /\ req_pc' = [req_pc EXCEPT ![r] = "done"]
  /\ UNCHANGED <<filepaths, extracted, raised, bucket>>

NextUploads ==
  /\ \E r \in Requests :
       \/ Arrive(r)
       \/ Save(r)
       \/ Extract(r)
       \/ Annotate(r)
       \/ Finally(r)
       \/ RouteCleanup(r)
  /\ UNCHANGED <<orchestrator, engine, loop, limits>>

SpecUploads == InitUploads /\ [][NextUploads]_vars

(***************************************************************************)
(* The lexical ratio on its own, over texts long enough for the matching   *)
(* blocks to depend on the order of the two arguments.                     *)
(***************************************************************************)
MaxRatioLen == 4

RatioTexts == SeqsUpTo(Alphabet, MaxRatioLen)

(* Two texts were extracted; the ratio is not computed yet. *)
InitRatio ==
  /\ pc = "ratio"
  /\ use_ai_comparison = FALSE
  /\ semantic_comparator = FALSE
  /\ method = ""
  /\ text1 \in RatioTexts
  /\ text2 \in RatioTexts
  /\ raw_similarity = -1 /\ basic_differences = <<>> /\ branch = ""
  /\ ai_analysis = NoAnalysis /\ final_similarity = JAbsent
  /\ final_differences = JAbsent /\ comparison_method = ""
  /\ NoCascade
  /\ result = NoResult
  /\ error = ""
  /\ NoConsensusCall
  /\ NoModelsLoop
  /\ NoUploads
  /\ NoLimits

(* raw_similarity = difflib.SequenceMatcher(None, text1, text2).ratio() *)
ComputeRatio ==
  /\ pc = "ratio"
  /\ raw_similarity' = Ratio(text1, text2)
  /\ pc' = "ratio_done"
  /\ UNCHANGED <<use_ai_comparison, semantic_comparator, method, text1,
                 text2, basic_differences, branch, ai_analysis,
                 final_similarity, final_differences, comparison_method,
                 cascade, result, error, aside>>

NextRatio == ComputeRatio

SpecRatio == InitRatio /\ [][NextRatio]_vars

(***************************************************************************)
(* The size limits: Config.get_effective_limit and                         *)
(* FileSizeHandler.validate_file_size, which the route calls on each       *)
(* upload.  Sizes are in bytes.                                            *)
(***************************************************************************)
Megabyte == 1024 * 1024

(* Config *)
FLASK_MAX_CONTENT_LENGTH == 50 * Megabyte
GOOGLE_VISION_MAX_FILE_SIZE == 20 * Megabyte

(* FileSizeHandler *)
FLASK_LIMIT == 16 * Megabyte
GOOGLE_VISION_LIMIT == 20 * Megabyte

(* The largest file tried, in megabytes. *)
MaxMegabytes == 51

(* The sizes tried: every whole number of megabytes, one byte less and one *)
(* byte more.                                                              *)
FileSizes ==
  {k * Megabyte + d : k \in 0 .. MaxMegabytes, d \in {-1, 0, 1}} \cap Nat

(* get_effective_limit: min(limits) *)
GetEffectiveLimit == Min(FLASK_MAX_CONTENT_LENGTH, GOOGLE_VISION_MAX_FILE_SIZE)

(* validate_file_size: the check that rejects the file, "valid" if none. *)
ValidateFileSize(size) ==
  IF size > GOOGLE_VISION_LIMIT THEN "google_vision"
  ELSE IF size > FLASK_LIMIT THEN "flask"
  ELSE "valid"

(* A file of some size was uploaded. *)
InitLimits ==
  /\ pc = "new"
  /\ use_ai_comparison = FALSE
  /\ semantic_comparator = FALSE
  /\ NoFrame
  /\ NoCascade
  /\ result = NoResult
  /\ error = ""
  /\ NoConsensusCall
  /\ NoModelsLoop
  /\ NoUploads
  /\ file_size \in FileSizes
  /\ is_valid = ""
  /\ effective_limit = -1

(* The route validates the file. *)
Validate ==
  /\ is_valid = ""
  /\ is_valid' = ValidateFileSize(file_size)
  /\ UNCHANGED <<orchestrator, engine, loop, uploads, file_size,
                 effective_limit>>

(* The configuration is asked for its effective limit. *)
AskEffectiveLimit ==
  /\ effective_limit = -1
  /\ effective_limit' = GetEffectiveLimit
  /\ UNCHANGED <<orchestrator, engine, loop, uploads, file_size, is_valid>>

NextLimits ==
  \/ Validate
  \/ AskEffectiveLimit

SpecLimits == InitLimits /\ [][NextLimits]_vars

(***************************************************************************)
(* The properties.                                                         *)
(***************************************************************************)

(* The request got past text extraction and chose its branch. *)
Dispatched == branch # ""

(* compare_with_gpt is over. *)
CascadeOver == pc \in {"gpt_returned", "done", "raised"} /\ model_calls > 0

(* The kinds of reply no result can be decoded from. *)
FailedKinds == {"error", "none", "text", "scalar"}

(* What the lexical engine alone gives for the two texts of the request. *)
LexicalResult ==
  ComparisonResult(JNum(Ratio(text1, text2)),
                   JList(UnifiedDiff(SplitLines(text1), SplitLines(text2))),
                   text1, text2, NoAnalysis, "basic", Ratio(text1, text2))

(* C1: in mode "basic" no model call is issued, with or without an AI      *)
(* client, and the result is labelled "basic", its score the lexical ratio *)
(* and its differences the lines of the unified diff.                      *)
C1_BasicNeverCallsModel ==
  (method = "basic" /\ Dispatched) =>
    /\ model_calls = 0
    /\ prompts = <<>>
    /\ pc = "done"
    /\ result.comparison_method = "basic"
    /\ result.similarity_score = JNum(Ratio(text1, text2))
    /\ result.differences =
         JList(UnifiedDiff(SplitLines(text1), SplitLines(text2)))

C1_Witness ==
  /\ pc = "done" /\ method = "basic" /\ semantic_comparator
  /\ text1 # text2 /\ result.differences # JList(<<>>)

(* C2: in mode "ai" without an AI client the call ends with an error       *)
(* raised to the caller: no model call, no fallback, no result.            *)
C2_AiWithoutClientRaises ==
  (method = "ai" /\ ~semantic_comparator /\ Dispatched) =>
    /\ pc = "raised"
    /\ error = "ValueError"
    /\ model_calls = 0
    /\ prompts = <<>>
    /\ result = NoResult

C2_Witness ==
  /\ pc = "raised" /\ method = "ai" /\ ~semantic_comparator
  /\ error = "ValueError" /\ text1 # text2

(* C3: in mode "auto" without an AI client the call does what "basic"      *)
(* does: no model call, label "basic", score equal to raw_similarity.      *)
C3_AutoWithoutClientIsBasic ==
  (method = "auto" /\ ~semantic_comparator /\ Dispatched) =>
    /\ pc = "done"
    /\ model_calls = 0
    /\ prompts = <<>>
    /\ result.comparison_method = "basic"
    /\ result.similarity_score = JNum(result.raw_similarity)
    /\ result = LexicalResult

C3_Witness ==
  /\ pc = "done" /\ method = "auto" /\ ~semantic_comparator
  /\ text1 # text2 /\ result.comparison_method = "basic"

(* C4: in mode "auto" with an AI client the result is always labelled      *)
(* "ai", whatever the model calls do.                                      *)
C4_AutoWithClientIsAi ==
  (method = "auto" /\ semantic_comparator /\ pc = "done") =>
    result.comparison_method = "ai"

(* C5: in mode "ai" with an AI client the call always returns a result     *)
(* labelled "ai" and never raises, whatever the model calls do.            *)
C5_AiWithClientSucceeds ==
  (method = "ai" /\ semantic_comparator /\ Dispatched
     /\ pc \in {"done", "raised"}) =>
    /\ pc = "done"
    /\ result.comparison_method = "ai"

(* C6: whatever the model calls do, compare_with_gpt returns a result and  *)
(* lets no exception out: a failed detailed attempt is followed by the     *)
(* simplified one, a failed simplified attempt by the lexical result, and  *)
(* no state of the cascade is an error state.                              *)
C6_CascadeAlwaysReturns ==
  /\ ~gpt_raised
  /\ (pc = "simple_call" =>
        /\ detailed_reply.kind \in FailedKinds
        /\ model_calls = 1)
  /\ (CascadeOver =>
        /\ gpt_result # NoAnalysis
        /\ tier \in {"detailed", "simple", "lexical"}
        /\ (detailed_reply.kind \in FailedKinds =>
              /\ Len(prompts) = 2
              /\ prompts[2].variant = "simple")
        /\ (simple_reply.kind \in FailedKinds => tier = "lexical"))

C6_Witness ==
  /\ pc = "gpt_returned" /\ tier = "lexical" /\ gpt_result # NoAnalysis
  /\ detailed_reply.kind = "scalar" /\ simple_reply.kind = "text"

(* C7: when the detailed attempt fails and the simplified one succeeds,    *)
(* the confidence is 0.8 whatever the model replied, the score is the      *)
(* reported percentage divided by 100, and no exception gets out.          *)
C7_SimpleTierResult ==
  LET p == simple_reply.obj["similarity_percentage"]
      r == gpt_result.similarity_score
  IN  /\ (CascadeOver /\ detailed_reply.kind \in FailedKinds
            /\ simple_reply.kind = "object" /\ p.t = "num") =>
           /\ tier = "simple"
           /\ r.t = "num"
           /\ 100 * r.n <= p.n
           /\ p.n < 100 * r.n + 100
      /\ (tier = "simple" =>
           /\ detailed_reply.kind \in FailedKinds
           /\ gpt_result.confidence = JNum(800)
           /\ ~gpt_raised)

C7_Witness ==
  /\ pc = "gpt_returned" /\ tier = "simple"
  /\ detailed_reply.kind = "error"
  /\ simple_reply.obj["similarity_percentage"] = JNum(50000)
  /\ gpt_result.similarity_score = JNum(500)
  /\ gpt_result.confidence = JNum(800)

(* C8: when both attempts fail, for whatever reason, the confidence is     *)
(* 0.3, the score is the lexical ratio, the differences are the single     *)
(* statement "AI comparison failed, using text similarity" and the error   *)
(* that ended the simplified attempt is under technical_analysis.error.    *)
C8_LexicalTierResult ==
  /\ (CascadeOver /\ detailed_reply.kind \in FailedKinds
        /\ \/ simple_reply.kind \in FailedKinds
           \/ /\ simple_reply.kind = "object"
              /\ simple_reply.obj["similarity_percentage"].t
                   \in {"null", "str"}) =>
       tier = "lexical"
  /\ (tier = "lexical" =>
       /\ detailed_error # ""
       /\ simple_error # ""
       /\ gpt_result.confidence = JNum(300)
       /\ gpt_result.similarity_score = JNum(gpt_result.raw_similarity)
       /\ gpt_result.raw_similarity = Ratio(text1, text2)
       /\ gpt_result.semantic_differences =
            JList(<<"AI comparison failed, using text similarity">>)
       /\ gpt_result.technical_analysis = JDict({<<"error", simple_error>>}))

C8_Witness ==
  /\ pc = "gpt_returned" /\ tier = "lexical"
  /\ detailed_reply.kind = "text" /\ simple_reply.kind = "error"
  /\ text1 # text2
  /\ gpt_result.technical_analysis = JDict({<<"error", "APIError">>})

C10_FallbackLabelOnlyOnEscape ==
  /\ (pc = "done" /\ tier = "lexical") => result.comparison_method = "ai"
  /\ (pc = "done" /\ result.comparison_method = "basic_fallback") =>
       gpt_raised

(* C11: ai_analysis is there exactly when the result is labelled "ai"; a   *)
(* result labelled "basic" or "basic_fallback" carries no ai_analysis, its *)
(* score is raw_similarity and its differences are the lines of the        *)
(* unified diff.                                                           *)
C11_AiAnalysisOnlyWhenAi ==
  pc = "done" =>
    /\ (result.ai_analysis # NoAnalysis) <=> (result.comparison_method = "ai")
    /\ (result.comparison_method \in {"basic", "basic_fallback"} =>
          /\ result.ai_analysis = NoAnalysis
          /\ result.similarity_score = JNum(result.raw_similarity)
          /\ result.differences =
               JList(UnifiedDiff(SplitLines(text1), SplitLines(text2))))

(* A number is inside [0, 1]; what is not a number is not judged here. *)
Clamped(v) == v.t = "num" => v.n \in 0 .. 1000

(* C12: the similarity_score and the confidence of every result that       *)
(* compare_with_gpt returns, and the similarity_score of every result the  *)
(* orchestrator returns, are inside [0, 1], whatever numbers the model     *)
(* reported.                                                               *)
C12_ScoresClamped ==
  /\ (CascadeOver /\ gpt_result # NoAnalysis) =>
       /\ Clamped(gpt_result.similarity_score)
       /\ Clamped(gpt_result.confidence)
  /\ (pc = "done") =>
       /\ Clamped(result.similarity_score)
       /\ (result.ai_analysis # NoAnalysis =>
             /\ Clamped(result.ai_analysis.similarity_score)
             /\ Clamped(result.ai_analysis.confidence))

(* C13: the differences of every result returned are a sequence, never     *)
(* null, also when the reply has semantic_differences or main_differences  *)
(* null or absent.                                                         *)
C13_DifferencesNeverNull ==
  /\ (CascadeOver /\ gpt_result # NoAnalysis) =>
       gpt_result.semantic_differences.t = "list"
  /\ (pc = "done") => result.differences.t = "list"

(* C14: a reply that decodes to an object without the score field          *)
(* (similarity_score in the detailed variant, similarity_percentage in the *)
(* simplified one) is a failure of its tier: no result is built from it    *)
(* and the cascade goes on to the next tier.                               *)
C14_MissingScoreIsFailure ==
  /\ (detailed_reply.kind = "object"
        /\ detailed_reply.obj["similarity_score"] = JAbsent) =>
       /\ tier # "detailed"
       /\ detailed_error # ""
       /\ (pc = "simple_call" \/ model_calls = 2)
  /\ (simple_reply.kind = "object"
        /\ simple_reply.obj["similarity_percentage"] = JAbsent) =>
       /\ tier = "lexical"
       /\ simple_error # ""

(* The contributors of a consensus: the call returned and the dict held    *)
(* two results or more.                                                    *)
Merged == consensus_pc = "returned" /\ Len(results) >= 2

(* The confidence and the score of the i-th result of the dict. *)
ConfidenceOf(i) == results[i].result.confidence.n
ScoreOf(i) == results[i].result.similarity_score.n

(* C15: get_consensus_result on a dict of exactly one result returns that  *)
(* result, the same in every field, whatever the result holds.             *)
C15_SingleResultUnchanged ==
  (consensus_pc # "called" /\ Len(results) = 1) =>
    /\ consensus_pc = "returned"
    /\ consensus_error = ""
    /\ consensus = results[1].result

C15_Witness ==
  /\ consensus_pc = "returned" /\ Len(results) = 1
  /\ results[1].result.confidence = JNum(1500)
  /\ consensus.confidence = JNum(1500)
  /\ consensus.reasoning = JStr("the grid moved")

(* C16: for two results or more the consensus similarity_score is the sum  *)
(* of score times confidence divided by the sum of the confidences, up to  *)
(* the rounding of the last digit, and it is 0.0 when the confidences sum  *)
(* to zero.                                                                *)
C16_WeightedAverage ==
  Merged =>
    LET W == TotalWeight(results, Len(results))
        S == TotalWeightedSimilarity(results, Len(results))
        d == consensus.similarity_score.n * W - S
    IN  /\ consensus.similarity_score.t = "num"
        /\ (W = 0 => consensus.similarity_score.n = 0)
        /\ (W > 0 => d <= 0 /\ -d < W)
        /\ (W < 0 => d >= 0 /\ d < -W)

(* C17: for two results or more the consensus confidence is the smaller of *)
(* 1.0 and the sum of the confidences divided by the number of results, so *)
(* it is never above 1.0, confidences above 1 among the inputs or not.     *)
C17_ConfidenceIsCappedMean ==
  Merged =>
    LET W == TotalWeight(results, Len(results))
        N == Len(results)
        c == consensus.confidence.n
    IN  /\ consensus.confidence.t = "num"
        /\ c <= 1000
        /\ (W >= 1000 * N => c = 1000)
        /\ (W < 1000 * N => N * c <= W /\ W < N * c + N)

C17_Witness ==
  /\ Merged
  /\ \A i \in 1 .. Len(results) : ConfidenceOf(i) = 1500
  /\ consensus.confidence = JNum(1000)

(* C18: for two results or more the technical_analysis and the categories  *)
(* of the consensus are those of the result of highest confidence, the     *)
(* first of them in the order of the dict when several have it.            *)
C18_BestResultIsFirstHighest ==
  Merged =>
    \E i \in 1 .. Len(results) :
      /\ \A j \in 1 .. Len(results) : ConfidenceOf(j) <= ConfidenceOf(i)
      /\ \A j \in 1 .. (i - 1) : ConfidenceOf(j) < ConfidenceOf(i)
      /\ consensus.technical_analysis = results[i].result.technical_analysis
      /\ consensus.categories = results[i].result.categories

C18_Witness ==
  /\ Merged
  /\ ConfidenceOf(1) = ConfidenceOf(2)
  /\ results[1].result.technical_analysis
       # results[2].result.technical_analysis
  /\ consensus.categories = results[1].result.categories

(* C19: for two results or more the semantic_differences of the consensus  *)
(* hold exactly the statements found in the list of at least one result,   *)
(* each of them once.                                                      *)
C19_DifferencesAreUnion ==
  Merged =>
    /\ consensus.semantic_differences.t = "list"
    /\ Elements(consensus.semantic_differences.l) =
         UNION {Elements(results[i].result.semantic_differences.l) :
                  i \in 1 .. Len(results)}
    /\ \A i, j \in 1 .. Len(consensus.semantic_differences.l) :
         consensus.semantic_differences.l[i]
           = consensus.semantic_differences.l[j] => i = j

C19_Witness ==
  /\ Merged
  /\ Len(results[1].result.semantic_differences.l) = 2
  /\ Len(results[2].result.semantic_differences.l) = 1
  /\ Len(consensus.semantic_differences.l) = 2

(* C20: get_consensus_result on an empty dict raises an error and returns  *)
(* no result.                                                              *)
C20_EmptyMapRaises ==
  (consensus_pc # "called" /\ Len(results) = 0) =>
    /\ consensus_pc = "raised"
    /\ consensus_error = "ValueError"
    /\ consensus = NoAnalysis

C20_Witness ==
  /\ consensus_pc = "raised" /\ results = <<>>
  /\ consensus_error = "ValueError"

(* The models whose two calls both failed. *)
FailedModels ==
  {attempts[i].model : i \in {k \in 1 .. Len(attempts) :
                                attempts[k].tier = "lexical"}}

(* The keys of the dict of results. *)
ResultModels == {results[i].model : i \in 1 .. Len(results)}

(* C21: a model whose calls fail is not in the dict handed to              *)
(* get_consensus_result, so nothing of it is in the consensus, and the     *)
(* models after it are still asked.                                        *)
C21_FailedModelOmitted ==
  /\ (pc = "models_returned" => Len(attempts) = Len(Models))
  /\ (pc = "models_returned" => FailedModels \cap ResultModels = {})
  /\ (pc = "models_returned" /\ consensus_pc = "returned"
        /\ FailedModels # {}) =>
       "AI comparison failed, using text similarity"
         \notin Elements(consensus.semantic_differences.l)

(* The request r was answered. *)
Answered(r) == req_pc[r] = "done"

(* C22: two requests served at the same time do not interfere: a request   *)
(* answered with a result compared its own two documents, and a request    *)
(* answered with an error failed on its own (its save or its extraction),  *)
(* also when both upload files of the same names.                          *)
C22_RequestsDoNotInterfere ==
  \A r \in Requests :
    Answered(r) =>
      /\ (status[r] = 200 => extracted[r] = <<Doc(r, 1), Doc(r, 2)>>)
      /\ (status[r] = 500 => raised[r] \in {"SaveError", "VisionError"})

(* C29: once a request is answered, alone in the route, neither of its     *)
(* files is left in the upload folder, whether the comparison succeeded,   *)
(* the extraction failed or a save failed; and the clean-up of the route   *)
(* after the one of the comparator leaves a success a success.             *)
C29_UploadsRemoved ==
  \A r \in Requests :
    (Answered(r) /\ \A q \in Requests \ {r} : req_pc[q] = "idle") =>
      /\ folder[filepaths[r][1]] = NoDoc
      /\ folder[filepaths[r][2]] = NoDoc
      /\ (raised[r] = "" => status[r] = 200)

(* C23: the lexical ratio and the unified diff of the two full texts are   *)
(* computed before the first model call, and the raw_similarity of every   *)
(* returned result is the lexical ratio of the two texts, whatever the     *)
(* method and whatever the model calls did.                                *)
C23_RawSimilarityIsLexical ==
  /\ (pc \in {"detailed_call", "simple_call", "gpt_returned"} =>
        /\ raw_similarity = Ratio(text1, text2)
        /\ basic_differences = UnifiedDiff(SplitLines(text1),
                                           SplitLines(text2)))
  /\ (pc = "done" =>
        result.raw_similarity = Ratio(result.file1_text, result.file2_text))

C23_Witness ==
  /\ pc = "done"
  /\ model_calls = 2
  /\ result.comparison_method = "ai"
  /\ result.file1_text # result.file2_text
  /\ result.similarity_score # JNum(result.raw_similarity)

(* C24: the lexical ratio is symmetric: the ratio of text1 with text2 is   *)
(* the ratio of text2 with text1.                                          *)
C24_RatioSymmetric ==
  pc = "ratio_done" => raw_similarity = Ratio(text2, text1)

(* C25: the lexical ratio of a text with itself is 1.0, two empty texts    *)
(* included, and it is 0.0 when exactly one of the two texts is empty.     *)
C25_RatioIdentityAndEmpty ==
  pc = "ratio_done" =>
    /\ (text1 = text2 => raw_similarity = 1000)
    /\ ((text1 = <<>>) # (text2 = <<>>) => raw_similarity = 0)

C25_Witness ==
  /\ pc = "ratio_done"
  /\ text1 = <<>>
  /\ text2 = <<>>
  /\ raw_similarity = 1000

C30_EffectiveLimitIsTheLimit ==
  (is_valid # "" /\ effective_limit # -1) =>
    ((file_size <= effective_limit) <=> (is_valid = "valid"))

====
